---- MODULE Spec2Model ----
(***************************************************************************)
(* YhUserSDK: a client SDK for a chat platform's HTTP API.  The repository *)
(* holds three programs, each modelled here and selected by `program`:     *)
(*   "sync"  - src/YhUserSDK/openapi.py, class api (requests + AES-GCM     *)
(*             token file + CHAT_API_TOKEN environment variable);          *)
(*   "async" - src/openapi.py, TokenManager / require_token / User /       *)
(*             Admin / Tag (coroutines on one event loop, Fernet file);    *)
(*   "http"  - src/request.py, AsyncHTTPClient (aiohttp session holder).   *)
(* A behaviour is a run of one of the three; "tokens" is the async         *)
(* module's TokenManager used by a single caller across process restarts.  *)
(***************************************************************************)
EXTENDS Integers, Sequences, FiniteSets, TLC

VARIABLES
    program,    \* which of the three programs this behaviour runs
    \* ---- sync: class api (src/YhUserSDK/openapi.py)
    s_token,    \* api.token
    s_hdr,      \* api.headers["token"]
    s_file,     \* content of api_token.enc (None: no such file)
    s_salt,     \* content of api_token.salt (None: no such file)
    s_env,      \* os.environ.get("CHAT_API_TOKEN")
    s_call,     \* the call just made and its arguments (None: between calls)
    s_ret,      \* what that call returned or raised
    s_sent,     \* number of requests.post calls made by that call
    s_mr,       \* that call's _make_request: the POST's outcome and the value returned
    s_saved,    \* token of the last completed _save_token, None once the token
                \* file or the salt file was changed from outside
    \* ---- async: src/openapi.py
    a_token,    \* TokenManager._token
    a_file,     \* content of token.enc (None: no such file)
    a_keyfile,  \* content of secret.key (None: no such file)
    a_key,      \* TokenManager().key, read once when the singleton is built
    a_lock,     \* TokenManager._lock: [holder, waiters]
    a_pc,       \* per coroutine: where it is suspended
    a_op,       \* per coroutine: the public operation it was called for
    a_sent,     \* per coroutine: the HTTP requests its current call has sent
    a_ret,      \* per coroutine: the return value of its last call
    a_obs,      \* per coroutine: what was true when its current call started
    a_saved,    \* token of the last save_token that wrote token.enc under the
                \* key in secret.key, None once either file was changed by
                \* anything else
    \* ---- http: AsyncHTTPClient (src/request.py)
    h_sessions, \* every aiohttp.ClientSession this client created: closed?
    h_session,  \* self.session: 0 for None, else an index into h_sessions
    h_pc,       \* per coroutine: where it is suspended
    h_req,      \* per coroutine: the request it has in flight
    h_ret,      \* per coroutine: the outcome of its last call
    h_last,     \* the last completed step on the client
    h_cfg       \* the constructor's raise_for_status and whether cookies were given

svars == <<s_token, s_hdr, s_file, s_salt, s_env, s_call, s_ret, s_sent, s_mr, s_saved>>
avars == <<a_token, a_file, a_keyfile, a_key, a_lock, a_pc, a_op, a_sent, a_ret, a_obs, a_saved>>
hvars == <<h_sessions, h_session, h_pc, h_req, h_ret, h_last, h_cfg>>
vars == <<program, svars, avars, hvars>>

(***************************************************************************)
(* Bounds of the model.                                                    *)
(***************************************************************************)
MaxTokLen == 2
MaxSessions == 3

(***************************************************************************)
(* Python values.  None is the empty tuple and a value v that may be None  *)
(* is carried as <<v>>, so that None, "" and {} stay three different       *)
(* values.  A str is a sequence of characters, bytes a sequence of 0..255. *)
(***************************************************************************)
None == <<>>
Some(x) == <<x>>
The(o) == o[1]

Chars == {"a", "b"}
\* the tokens of the model: one string of every length up to MaxTokLen
Strings == {[i \in 1..n |-> IF i % 2 = 1 THEN "a" ELSE "b"] : n \in 0..MaxTokLen}

\* bool(x) of an Optional[str]: None and "" are false
Truthy(o) == o # None /\ The(o) # <<>>

RECURSIVE SumSeq(_)
SumSeq(s) == IF s = <<>> THEN 0 ELSE Head(s) + SumSeq(Tail(s))

Min(a, b) == IF a < b THEN a ELSE b
Max(a, b) == IF a < b THEN b ELSE a

\* s[:n], s[-n:] and s[a:-b] of a Python sequence (slices never raise)
SliceTo(s, n) == SubSeq(s, 1, Min(n, Len(s)))
SliceLast(s, n) == SubSeq(s, Max(1, Len(s) - n + 1), Len(s))
SliceMid(s, a, b) == IF a + 1 > Len(s) - b THEN <<>> ELSE SubSeq(s, a + 1, Len(s) - b)

Ok(v) == [ok |-> TRUE, val |-> v]
Raise(e) == [ok |-> FALSE, exc |-> e]

\* d.get(k, default) of a dict carried as a function on its keys
Get(d, k, default) == IF k \in DOMAIN d THEN d[k] ELSE default

\* str.encode() / bytes.decode(): UTF-8 of the two characters of the model;
\* any other byte has no character here and is a UnicodeDecodeError
CodePoint(c) == IF c = "a" THEN 97 ELSE 98
StrEncode(s) == [i \in 1..Len(s) |-> CodePoint(s[i])]
BytesDecode(b) ==
    IF \A i \in 1..Len(b) : b[i] \in {97, 98}
    THEN Ok([i \in 1..Len(b) |-> IF b[i] = 97 THEN "a" ELSE "b"])
    ELSE Raise("UnicodeDecodeError")

\* base64: every byte becomes two symbols of a 16-letter alphabet; decoding a
\* text of odd length is binascii.Error (a ValueError)
B64Encode(b) == [i \in 1..(2 * Len(b)) |->
                    IF i % 2 = 1 THEN b[(i + 1) \div 2] \div 16 ELSE b[i \div 2] % 16]
B64Decode(t) ==
    IF Len(t) % 2 = 1 THEN Raise("ValueError")
    ELSE Ok([i \in 1..(Len(t) \div 2) |-> 16 * t[2 * i - 1] + t[2 * i]])

(***************************************************************************)
(* sync: AES-GCM token file                                                *)
(***************************************************************************)
NONCE_LEN == 12
TAG_LEN == 16

Salts == {1, 2}      \* get_random_bytes(SALT_SIZE)
Nonces == {0, 1}     \* the random nonce AES.new draws

PBKDF2(salt) == (31 * salt + 17) % 256

NonceBytes(n) == [i \in 1..NONCE_LEN |-> n]
NonceVal(nb) == SumSeq(nb) % 256
GcmCipher(key, nb, plain) ==
    [i \in 1..Len(plain) |-> (plain[i] + key + 7 * NonceVal(nb) + 13 * i) % 256]
GcmPlain(key, nb, ct) ==
    [i \in 1..Len(ct) |-> (ct[i] + 512 - ((key + 7 * NonceVal(nb) + 13 * i) % 256)) % 256]
GcmTag(key, nb, ct) ==
    LET t == (key + 3 * NonceVal(nb) + Len(ct)
              + SumSeq([i \in 1..Len(ct) |-> (i + 1) * ct[i]])) % 256
    IN  [i \in 1..TAG_LEN |-> t]

\* the salts get_random_bytes can draw when the salt file is missing (the
\* draw is not made when the file exists)
SaltDraws(salt) == IF salt = None THEN Salts ELSE {The(salt)}

\* _get_encryption_key: reads the salt file, or creates it with random salt r
GetEncryptionKey(salt, r) ==
    LET s == IF salt = None THEN Some(r) ELSE salt
    IN  [salt |-> s, key |-> PBKDF2(The(s))]

\* _encrypt_token: base64(nonce + ciphertext + tag)
EncryptToken(key, n, token) ==
    LET nb == NonceBytes(n)
        ct == GcmCipher(key, nb, StrEncode(token))
    IN  B64Encode(nb \o ct \o GcmTag(key, nb, ct))

\* _decrypt_token: every failure leaves as ValueError
DecryptToken(key, text) ==
    LET d == B64Decode(text) IN
    IF ~d.ok THEN Raise("ValueError")
    ELSE LET data == d.val
             nonce == SliceTo(data, NONCE_LEN)
             tag == SliceLast(data, TAG_LEN)
             ct == SliceMid(data, NONCE_LEN, TAG_LEN)
         IN  IF nonce = <<>> THEN Raise("ValueError")
             ELSE IF GcmTag(key, nonce, ct) # tag THEN Raise("ValueError")
             ELSE IF ~BytesDecode(GcmPlain(key, nonce, ct)).ok THEN Raise("ValueError")
             ELSE BytesDecode(GcmPlain(key, nonce, ct))

\* _save_token(token): encrypt, write api_token.enc, set CHAT_API_TOKEN.
\* r and n are the random salt and nonce; ioFail: open(TOKEN_FILE, 'w') raises
ApiSaveToken(token, file, salt, env, r, n, ioFail) ==
    LET k == GetEncryptionKey(salt, r) IN
    IF token = None
    THEN [raised |-> TRUE, exc |-> "AttributeError", file |-> file, salt |-> k.salt, env |-> env]
    ELSE IF ioFail
    THEN [raised |-> TRUE, exc |-> "OSError", file |-> file, salt |-> k.salt, env |-> env]
    ELSE [raised |-> FALSE, exc |-> "",
          file |-> Some(EncryptToken(k.key, n, The(token))), salt |-> k.salt, env |-> token]

\* _load_token(): the decrypted file if there is one and it decrypts, else the
\* environment variable; decrypting creates the salt file when it is missing
ApiLoadToken(file, salt, env, r) ==
    IF file # None
    THEN LET k == GetEncryptionKey(salt, r)
             d == DecryptToken(k.key, The(file))
         IN  [val |-> IF d.ok THEN Some(d.val) ELSE env, salt |-> k.salt]
    ELSE [val |-> env, salt |-> salt]

(***************************************************************************)
(* sync: _make_request.  The POST's outcome o is                           *)
(*   kind "pre_raises":  an exception before requests.post is reached;     *)
(*   kind "post_raises": requests.post raises;                             *)
(*   kind "json_raises": response.json() raises;                           *)
(*   kind "nondict":     the reply is JSON but not an object;              *)
(*   kind "reply":       the reply is the JSON object o.body;              *)
(* o.reqExc says whether a raised exception is a RequestException.         *)
(***************************************************************************)
Field(k, choice) == IF choice = None THEN <<>> ELSE (k :> The(choice))
Body(c, m, d) == Field("code", c) @@ Field("msg", m) @@ Field("data", d)

\* a field of the reply: absent (None), or present with a value (null is Some(None))
CodeChoices == {None, Some(None), Some(Some(1)), Some(Some(0))}
MsgChoices == {None, Some("msg")}
DataChoices == {None, Some(None), Some(Some(<<>>)), Some(Some([token |-> None]))}
                   \cup {Some(Some([token |-> Some(t)])) : t \in Strings}

Raises == {[kind |-> k, reqExc |-> b] : k \in {"post_raises", "json_raises"}, b \in BOOLEAN}
              \cup {[kind |-> "pre_raises", reqExc |-> FALSE], [kind |-> "nondict", reqExc |-> FALSE]}
\* replies to login: every shape of code and msg, and every shape of data
\* under a code of 1 (the code under which login reads data)
LoginOutcomes ==
    Raises \cup {[kind |-> "reply", reqExc |-> FALSE, body |-> Body(c, m, None)] :
                    c \in CodeChoices, m \in MsgChoices}
           \cup {[kind |-> "reply", reqExc |-> FALSE, body |-> Body(c, Some("msg"), d)] :
                    c \in {Some(Some(1)), Some(Some(0))}, d \in DataChoices}
PlainOutcomes ==
    {[kind |-> "post_raises", reqExc |-> TRUE]}
        \cup {[kind |-> "reply", reqExc |-> FALSE, body |-> Body(Some(Some(c)), Some("msg"), None)] :
                    c \in {0, 1}}

Unified(success, code, message, data) ==
    [success |-> success, code |-> code, message |-> message, data |-> data]

\* A variant that posts again after a network error.
MakeRequestRetry(o) ==
    IF o.kind = "pre_raises"
    THEN [posts |-> 0, val |-> Unified(FALSE, Some(-3), "unknown error", None)]
    ELSE IF o.kind \in {"post_raises", "json_raises"}
    THEN [posts |-> 2,
          val |-> IF o.reqExc THEN Unified(FALSE, Some(-2), "network error", None)
                  ELSE Unified(FALSE, Some(-3), "unknown error", None)]
    ELSE IF o.kind = "nondict"
    THEN [posts |-> 1, val |-> Unified(FALSE, Some(-3), "unknown error", None)]
    ELSE [posts |-> 1,
          val |-> Unified(Get(o.body, "code", None) = Some(1),
                          Get(o.body, "code", Some(-1)),
                          Get(o.body, "msg", "operation failed"),
                          Get(o.body, "data", None))]

\* A variant whose success flag is true for every reply that carries a code.
MakeRequestAnyCode(o) ==
    IF o.kind = "pre_raises"
    THEN [posts |-> 0, val |-> Unified(FALSE, Some(-3), "unknown error", None)]
    ELSE IF o.kind \in {"post_raises", "json_raises"}
    THEN [posts |-> 1,
          val |-> IF o.reqExc THEN Unified(FALSE, Some(-2), "network error", None)
                  ELSE Unified(FALSE, Some(-3), "unknown error", None)]
    ELSE IF o.kind = "nondict"
    THEN [posts |-> 1, val |-> Unified(FALSE, Some(-3), "unknown error", None)]
    ELSE [posts |-> 1,
          val |-> Unified("code" \in DOMAIN o.body,
                          Get(o.body, "code", Some(-1)),
                          Get(o.body, "msg", "operation failed"),
                          Get(o.body, "data", None))]

\* _make_request: the unified response, and how many POSTs were sent
MakeRequest(o) ==
    IF o.kind = "pre_raises"
    THEN [posts |-> 0, val |-> Unified(FALSE, Some(-3), "unknown error", None)]
    ELSE IF o.kind \in {"post_raises", "json_raises"}
    THEN [posts |-> 1,
          val |-> IF o.reqExc THEN Unified(FALSE, Some(-2), "network error", None)
                  ELSE Unified(FALSE, Some(-3), "unknown error", None)]
    ELSE IF o.kind = "nondict"
    THEN [posts |-> 1, val |-> Unified(FALSE, Some(-3), "unknown error", None)]
    ELSE [posts |-> 1,
          val |-> Unified(Get(o.body, "code", None) = Some(1),
                          Get(o.body, "code", Some(-1)),
                          Get(o.body, "msg", "operation failed"),
                          Get(o.body, "data", None))]

Returned(v) == [raised |-> FALSE, val |-> v]
Raised(e) == [raised |-> TRUE, exc |-> e]
Call(op, force, valid) == [op |-> op, force |-> force, valid |-> valid]

(***************************************************************************)
(* sync: the operations of class api.  The module is sequential: one       *)
(* action is one whole call.                                               *)
(***************************************************************************)
\* initialize(): token = _load_token(); headers["token"] follows a truthy token
ApiInitialize(hdr, file, salt, env, r) ==
    LET l == ApiLoadToken(file, salt, env, r)
    IN  [token |-> l.val, hdr |-> IF Truthy(l.val) THEN l.val ELSE hdr, salt |-> l.salt]

\* A variant that keeps the existing token even when force is given.
UseExistingIgnoringForce(force, token) == Truthy(token)

\* login's first test: `if not force and cls.token`
UseExisting(force, token) == ~force /\ Truthy(token)

\* login(email, password, force): the state after the call and its outcome
ApiLogin(token, hdr, file, salt, env, force, o, r, n, ioFail) ==
    LET same == [token |-> token, hdr |-> hdr, file |-> file, salt |-> salt, env |-> env,
                 saved |-> FALSE]
        m == MakeRequest(o)
        res == m.val
        req == [sent |-> m.posts, mr |-> Some([outcome |-> o, val |-> res])]
    IN  IF UseExisting(force, token)
        THEN same @@ [sent |-> 0, mr |-> None,
                      ret |-> Returned(Unified(TRUE, Some(1), "use existing token", None))]
        ELSE IF ~res.success
        THEN same @@ req @@ [ret |-> Returned(res)]
        ELSE IF res.data = None
        THEN same @@ req @@ [ret |-> Raised("TypeError")]
        ELSE IF "token" \notin DOMAIN The(res.data)
        THEN same @@ req @@ [ret |-> Raised("KeyError")]
        ELSE LET t == The(res.data).token
                 sv == ApiSaveToken(t, file, salt, env, r, n, ioFail)
             IN  [token |-> t, hdr |-> t, file |-> sv.file, salt |-> sv.salt,
                  env |-> sv.env, saved |-> ~sv.raised,
                  ret |-> IF sv.raised THEN Raised(sv.exc) ELSE Returned(res)] @@ req

SyncInitialize ==
    /\ program = "sync"
    /\ s_call = None
    /\ \E r \in SaltDraws(s_salt) :
         LET i == ApiInitialize(s_hdr, s_file, s_salt, s_env, r) IN
         /\ s_token' = i.token
         /\ s_hdr' = i.hdr
         /\ s_salt' = i.salt
    /\ s_call' = Call("initialize", FALSE, TRUE)
    /\ s_ret' = Returned(None)
    /\ s_sent' = 0
    /\ s_mr' = None
    /\ UNCHANGED <<s_file, s_env, s_saved>>
    /\ UNCHANGED <<program, avars, hvars>>

\* A new interpreter imports the module: the class attributes are fresh, the
\* environment variable set by the old process is gone, and the last line
\* runs initialize().
SyncImport ==
    /\ program = "sync"
    /\ s_call = None
    /\ \E r \in SaltDraws(s_salt) :
         LET i == ApiInitialize(None, s_file, s_salt, None, r) IN
         /\ s_env' = None
         /\ s_token' = i.token
         /\ s_hdr' = i.hdr
         /\ s_salt' = i.salt
    /\ s_call' = Call("initialize", FALSE, TRUE)
    /\ s_ret' = Returned(None)
    /\ s_sent' = 0
    /\ s_mr' = None
    /\ UNCHANGED <<s_file, s_saved>>
    /\ UNCHANGED <<program, avars, hvars>>

SyncLogin ==
    /\ program = "sync"
    /\ s_call = None
    /\ \E force \in BOOLEAN, o \in LoginOutcomes, r \in SaltDraws(s_salt),
          n \in Nonces, ioFail \in BOOLEAN :
         LET l == ApiLogin(s_token, s_hdr, s_file, s_salt, s_env, force, o, r, n, ioFail) IN
         /\ s_token' = l.token
         /\ s_hdr' = l.hdr
         /\ s_file' = l.file
         /\ s_salt' = l.salt
         /\ s_env' = l.env
         /\ s_call' = Call("login", force, TRUE)
         /\ s_ret' = l.ret
         /\ s_sent' = l.sent
         /\ s_mr' = l.mr
         /\ s_saved' = IF l.saved THEN l.token ELSE s_saved
    /\ UNCHANGED <<program, avars, hvars>>

\* an operation that checks an argument (valid: the check passes) and then
\* returns _make_request's result: code -4 and no request when the check fails
RequestOp(op, valid, o) ==
    /\ program = "sync"
    /\ s_call = None
    /\ s_call' = Call(op, FALSE, valid)
    /\ IF valid
       THEN LET m == MakeRequest(o) IN
            /\ s_ret' = Returned(m.val)
            /\ s_sent' = m.posts
            /\ s_mr' = Some([outcome |-> o, val |-> m.val])
       ELSE /\ s_ret' = Returned(Unified(FALSE, Some(-4), "bad argument", None))
            /\ s_sent' = 0
            /\ s_mr' = None
    /\ UNCHANGED <<s_token, s_hdr, s_file, s_salt, s_env, s_saved>>
    /\ UNCHANGED <<program, avars, hvars>>

\* ban -> ban_request: time must be one of allow_time
SyncBan == \E valid \in BOOLEAN, o \in PlainOutcomes : RequestOp("ban", valid, o)
\* unban -> ban_request(user_id, group_id, "0"), always an allowed time
SyncUnban == \E o \in PlainOutcomes : RequestOp("unban", TRUE, o)
SyncKick == \E o \in PlainOutcomes : RequestOp("kick", TRUE, o)
SyncTagAdd == \E o \in PlainOutcomes : RequestOp("tag.add", TRUE, o)
\* tag.rm, tag.edit, tag.set: tag_id must be an int
SyncTagRm == \E valid \in BOOLEAN, o \in PlainOutcomes : RequestOp("tag.rm", valid, o)
SyncTagList == \E o \in PlainOutcomes : RequestOp("tag.list", TRUE, o)
SyncTagEdit == \E valid \in BOOLEAN, o \in PlainOutcomes : RequestOp("tag.edit", valid, o)
SyncTagSet == \E valid \in BOOLEAN, o \in PlainOutcomes : RequestOp("tag.set", valid, o)
\* join.user / join.group / join.bot -> join_requests(1 | 2 | 3, id, msg)
SyncJoin == \E type \in {1, 2, 3}, o \in PlainOutcomes : RequestOp("join", TRUE, o)
\* leave.user / leave.group / leave.bot -> leave_requests(1 | 2 | 3, id)
SyncLeave == \E type \in {1, 2, 3}, o \in PlainOutcomes : RequestOp("leave", TRUE, o)

\* Outside the program: the token file is removed or overwritten, or the
\* salt file is removed.
GarbageFiles == {Some(<<7>>)}
SyncFileChanged ==
    /\ program = "sync"
    /\ s_call = None
    /\ \E f \in {None} \cup GarbageFiles : s_file' = f /\ f # s_file
    /\ s_saved' = None
    /\ UNCHANGED <<s_token, s_hdr, s_salt, s_env, s_call, s_ret, s_sent, s_mr>>
    /\ UNCHANGED <<program, avars, hvars>>
SyncSaltRemoved ==
    /\ program = "sync"
    /\ s_call = None
    /\ s_salt # None
    /\ s_salt' = None
    /\ s_saved' = None
    /\ UNCHANGED <<s_token, s_hdr, s_file, s_env, s_call, s_ret, s_sent, s_mr>>
    /\ UNCHANGED <<program, avars, hvars>>

\* The caller has the result of its call; the module is ready for the next.
SyncReturn ==
    /\ program = "sync"
    /\ s_call # None
    /\ s_call' = None
    /\ s_ret' = None
    /\ s_sent' = 0
    /\ s_mr' = None
    /\ UNCHANGED <<s_token, s_hdr, s_file, s_salt, s_env, s_saved>>
    /\ UNCHANGED <<program, avars, hvars>>

\* The state after `import`: the class attributes, then api.initialize()
\* (the module's last line) over whatever files and environment exist.
InitSync ==
    /\ program = "sync"
    /\ s_file \in {None} \cup GarbageFiles
    /\ s_env \in {None, Some(<<"a">>)}
    /\ \E r \in Salts :
         LET i == ApiInitialize(None, s_file, None, s_env, r) IN
         /\ s_token = i.token
         /\ s_hdr = i.hdr
         /\ s_salt = i.salt
    /\ s_call = None
    /\ s_ret = None
    /\ s_sent = 0
    /\ s_mr = None
    /\ s_saved = None

(***************************************************************************)
(* async: TokenManager (src/openapi.py).  token.enc holds the Fernet token *)
(* of the bearer token: base64(version, IV, ciphertext, HMAC).             *)
(***************************************************************************)
FernetKeys == {3, 4}     \* Fernet.generate_key()
FernetIVs == {1}         \* the random IV Fernet.encrypt draws

FernetCipher(key, iv, plain) ==
    [i \in 1..Len(plain) |-> (plain[i] + key + 5 * iv + 11 * i) % 256]
FernetPlain(key, iv, ct) ==
    [i \in 1..Len(ct) |-> (ct[i] + 512 - ((key + 5 * iv + 11 * i) % 256)) % 256]
FernetHmac(key, iv, ct) ==
    (key + iv + Len(ct) + SumSeq([i \in 1..Len(ct) |-> (i + 2) * ct[i]])) % 256

\* self.cipher.encrypt(token.encode())
FernetEncrypt(key, iv, token) ==
    LET ct == FernetCipher(key, iv, StrEncode(token))
    IN  B64Encode(<<128, iv>> \o ct \o <<FernetHmac(key, iv, ct)>>)

\* A variant that recovers the plaintext without the IV.
FernetDecryptWithoutIV(key, text) ==
    LET d == B64Decode(text) IN
    IF ~d.ok \/ Len(d.val) < 3 THEN Raise("InvalidToken")
    ELSE LET data == d.val
             iv == data[2]
             ct == SubSeq(data, 3, Len(data) - 1)
         IN  IF data[1] # 128 \/ data[Len(data)] # FernetHmac(key, iv, ct)
             THEN Raise("InvalidToken")
             ELSE BytesDecode(FernetPlain(key, 0, ct))

\* self.cipher.decrypt(encrypted).decode(): InvalidToken unless the text is
\* base64 of a version byte, an IV, a ciphertext and its HMAC under the key
FernetDecrypt(key, text) ==
    LET d == B64Decode(text) IN
    IF ~d.ok \/ Len(d.val) < 3 THEN Raise("InvalidToken")
    ELSE LET data == d.val
             iv == data[2]
             ct == SubSeq(data, 3, Len(data) - 1)
         IN  IF data[1] # 128 \/ data[Len(data)] # FernetHmac(key, iv, ct)
             THEN Raise("InvalidToken")
             ELSE BytesDecode(FernetPlain(key, iv, ct))

\* _get_or_create_key: secret.key if it exists, else a new key written to it
GetOrCreateKey(keyfile, k) == IF keyfile # None THEN The(keyfile) ELSE k

\* save_token(token); fault: "open" (encrypting or opening the file raises),
\* "write" (the file is opened, so truncated, and writing raises), "chmod"
\* (the file is written, chmod raises) or "none".  Every exception is caught
\* and logged; _token is assigned last.  wrote: the file now holds arg.
TmSaveToken(token, file, key, arg, iv, fault) ==
    IF arg = None \/ fault = "open"
    THEN [token |-> token, file |-> file, wrote |-> FALSE]
    ELSE IF fault = "write"
    THEN [token |-> token, file |-> Some(<<>>), wrote |-> FALSE]
    ELSE IF fault = "chmod"
    THEN [token |-> token, file |-> Some(FernetEncrypt(key, iv, The(arg))), wrote |-> TRUE]
    ELSE [token |-> arg, file |-> Some(FernetEncrypt(key, iv, The(arg))), wrote |-> TRUE]

SaveFaults == {"none", "open", "write", "chmod"}

\* clear_token(); unlinkFails: token_file.unlink() raises (caught and logged)
TmClearToken(file, unlinkFails) ==
    [token |-> None, file |-> IF file # None /\ ~unlinkFails THEN None ELSE file]

\* what load_token finds once it holds the lock: the value it will return
\* and the token it leaves in memory
TmLoadFinds(token, file, key) ==
    IF token # None THEN [ret |-> TRUE, token |-> token, logs |-> FALSE]
    ELSE IF file = None THEN [ret |-> FALSE, token |-> token, logs |-> TRUE]
    ELSE LET d == FernetDecrypt(key, The(file)) IN
         IF d.ok THEN [ret |-> TRUE, token |-> Some(d.val), logs |-> TRUE]
         ELSE [ret |-> FALSE, token |-> token, logs |-> TRUE]

\* no token in memory and no token file that decrypts under the key
NoAuth(token, file, key) ==
    token = None /\ (file = None \/ ~FernetDecrypt(key, The(file)).ok)

(***************************************************************************)
(* async: coroutines on one event loop.  A coroutine runs without          *)
(* interruption from one suspension to the next; it can be suspended where *)
(* it waits for TokenManager._lock, where load_token awaits the logger     *)
(* while holding the lock, and where it awaits the HTTP response.  The     *)
(* awaits of the logger that no read or write of shared state follows are  *)
(* folded into the step before them.                                       *)
(***************************************************************************)
\* Three coroutines share the event loop: one calls the guarded operations,
\* one logs in and out, one builds API clients (whose _async_init loads the
\* token) and calls guarded operations too.
Procs == {1, 2, 3}
Calls(p) == IF p = 1 THEN {"guarded", "unban"}
            ELSE IF p = 2 THEN {"login", "logout"}
            ELSE {"init", "guarded"}

FreeLock == [holder |-> 0, waiters |-> <<>>]
\* Lock.release(): the first waiter, if any, is the next holder
Release(lock) ==
    IF lock.waiters = <<>> THEN FreeLock
    ELSE [holder |-> Head(lock.waiters), waiters |-> Tail(lock.waiters)]

AuthRequired == [code |-> -1, msg |-> "Authentication required"]
NoOp == [name |-> "", left |-> 0, loadRet |-> FALSE]
NoSend == [n |-> 0, hdr |-> None]
NoObs == [call |-> "", check |-> ""]

\* the part of the state one step of coroutine p reads and writes
World(p) == [token |-> a_token, lock |-> a_lock, pc |-> a_pc[p], op |-> a_op[p],
             sent |-> a_sent[p], ret |-> a_ret[p], obs |-> a_obs[p]]

RECURSIVE LoadToken(_, _, _, _)
RECURSIVE LoadLocked(_, _, _, _)
RECURSIVE AfterLoad(_, _, _, _, _)

\* the body of ban, kick, Tag.edit, Tag.add, Tag.rm: requests.post with the
\* header "token": self.token, read when the call is made
PostBody(w) ==
    [w EXCEPT !.pc = "http", !.sent = [n |-> w.sent.n + 1, hdr |-> Some(w.token)]]

\* A variant of the wrapper that runs the function whatever load_token said.
AfterLoadIgnoringResult(w, p, file, key, ok) ==
    IF w.op.name = "init" THEN [w EXCEPT !.pc = "done", !.ret = None]
    ELSE IF w.op.left > 1 THEN LoadToken([w EXCEPT !.op.left = @ - 1], p, file, key)
    ELSE PostBody(w)

\* load_token has returned ok to its caller: _async_init is done with it;
\* require_token's wrapper returns "Authentication required" or awaits the
\* wrapped function, which for unban is the wrapped ban
AfterLoad(w, p, file, key, ok) ==
    IF w.op.name = "init" THEN [w EXCEPT !.pc = "done", !.ret = None]
    ELSE IF ~ok THEN [w EXCEPT !.pc = "done", !.ret = AuthRequired]
    ELSE IF w.op.left > 1 THEN LoadToken([w EXCEPT !.op.left = @ - 1], p, file, key)
    ELSE PostBody(w)

\* load_token inside `async with self._lock`, up to its first suspension
LoadLocked(w, p, file, key) ==
    LET f == TmLoadFinds(w.token, file, key)
        seen == [w EXCEPT !.obs.check = IF NoAuth(w.token, file, key) THEN "noauth" ELSE "auth"]
    IN  IF f.logs
        THEN [seen EXCEPT !.token = f.token, !.pc = "load_log", !.op.loadRet = f.ret]
        ELSE AfterLoad([seen EXCEPT !.lock = Release(@)], p, file, key, f.ret)

\* load_token: take the lock if it is free, else queue for it
LoadToken(w, p, file, key) ==
    IF w.lock.holder # 0
    THEN [w EXCEPT !.lock.waiters = Append(@, p), !.pc = "lock_wait"]
    ELSE LoadLocked([w EXCEPT !.lock.holder = p], p, file, key)

\* the step of coroutine p leaves the world w
Becomes(p, w) ==
    /\ a_token' = w.token
    /\ a_lock' = w.lock
    /\ a_pc' = [a_pc EXCEPT ![p] = w.pc]
    /\ a_op' = [a_op EXCEPT ![p] = w.op]
    /\ a_sent' = [a_sent EXCEPT ![p] = w.sent]
    /\ a_ret' = [a_ret EXCEPT ![p] = w.ret]
    /\ a_obs' = [a_obs EXCEPT ![p] = w.obs]

\* coroutine p calls an operation that first goes through load_token
Called(p, name, wrappers) ==
    /\ program = "async"
    /\ a_pc[p] = "idle"
    /\ name \in Calls(p)
    /\ Becomes(p, LoadToken(
           [World(p) EXCEPT !.op = [name |-> name, left |-> wrappers, loadRet |-> FALSE],
                            !.sent = NoSend,
                            !.obs = [call |-> IF NoAuth(a_token, a_file, a_key)
                                              THEN "noauth" ELSE "auth",
                                     check |-> ""]],
           p, a_file, a_key))
    /\ UNCHANGED <<a_file, a_keyfile, a_key, a_saved>>
    /\ UNCHANGED <<program, svars, hvars>>

\* BaseAPIClient.__init__: the task _async_init awaits load_token
AsyncInit(p) == Called(p, "init", 1)
AdminBan(p) == Called(p, "guarded", 1)
\* unban is wrapped and awaits self.ban, which is wrapped too
AdminUnban(p) == Called(p, "unban", 2)
AdminKick(p) == Called(p, "guarded", 1)
TagEdit(p) == Called(p, "guarded", 1)
TagAdd(p) == Called(p, "guarded", 1)
TagRm(p) == Called(p, "guarded", 1)

\* the lock was released to waiting coroutine p: it runs load_token's block
LockGranted(p) ==
    /\ program = "async"
    /\ a_pc[p] = "lock_wait"
    /\ a_lock.holder = p
    /\ Becomes(p, LoadLocked(World(p), p, a_file, a_key))
    /\ UNCHANGED <<a_file, a_keyfile, a_key, a_saved>>
    /\ UNCHANGED <<program, svars, hvars>>

\* load_token resumes after its await of the logger, leaves the lock and returns
LoadResumes(p) ==
    /\ program = "async"
    /\ a_pc[p] = "load_log"
    /\ Becomes(p, AfterLoad([World(p) EXCEPT !.lock = Release(@)], p, a_file, a_key,
                            a_op[p].loadRet))
    /\ UNCHANGED <<a_file, a_keyfile, a_key, a_saved>>
    /\ UNCHANGED <<program, svars, hvars>>

\* the response to a guarded operation's POST: the reply is returned as it
\* is; an exception (or a reply without ['code']) gives code -1
PostReturns(p) ==
    /\ program = "async"
    /\ a_pc[p] = "http"
    /\ a_op[p].name \in {"guarded", "unban"}
    /\ \E r \in {[code |-> 1, msg |-> "ok"], [code |-> 0, msg |-> "refused"],
                 [code |-> -1, msg |-> "error"]} :
         Becomes(p, [World(p) EXCEPT !.pc = "done", !.ret = r, !.sent.hdr = None])
    /\ UNCHANGED <<a_file, a_keyfile, a_key, a_saved>>
    /\ UNCHANGED <<program, svars, hvars>>

\* User.login up to its first suspension: `if self.token` returns at once
UserLogin(p) ==
    /\ program = "async"
    /\ a_pc[p] = "idle"
    /\ "login" \in Calls(p)
    /\ Becomes(p, IF Truthy(a_token)
                  THEN [World(p) EXCEPT !.pc = "done", !.sent = NoSend, !.obs = NoObs,
                                        !.op = [NoOp EXCEPT !.name = "login"],
                                        !.ret = [code |-> 1, msg |-> "already logged in"]]
                  ELSE [World(p) EXCEPT !.pc = "http", !.obs = NoObs,
                                        !.op = [NoOp EXCEPT !.name = "login"],
                                        !.sent = [n |-> 1, hdr |-> None]])
    /\ UNCHANGED <<a_file, a_keyfile, a_key, a_saved>>
    /\ UNCHANGED <<program, svars, hvars>>

\* the replies to login: an exception (raised by the POST, by response.json()
\* or by data being null), code 1 with data.token (None: no token in data),
\* or another code
LoginReplies ==
    {[kind |-> "raises", token |-> None], [kind |-> "refused", token |-> None],
     [kind |-> "ok", token |-> None]}
        \cup {[kind |-> "ok", token |-> Some(t)] : t \in {u \in Strings : Len(u) <= 1}}

\* User.login after the response: save_token on code 1, the reply is returned
LoginReturns(p) ==
    /\ program = "async"
    /\ a_pc[p] = "http"
    /\ a_op[p].name = "login"
    /\ \E r \in LoginReplies, iv \in FernetIVs, fault \in SaveFaults :
         LET sv == IF r.kind = "ok"
                   THEN TmSaveToken(a_token, a_file, a_key, r.token, iv, fault)
                   ELSE [token |-> a_token, file |-> a_file, wrote |-> FALSE]
         IN  /\ Becomes(p, [World(p) EXCEPT
                    !.token = sv.token, !.pc = "done",
                    !.ret = IF r.kind = "raises" THEN [code |-> -1, msg |-> "error"]
                            ELSE IF r.kind = "ok" THEN [code |-> 1, msg |-> "ok"]
                            ELSE [code |-> 0, msg |-> "refused"]])
             /\ a_file' = sv.file
    /\ UNCHANGED <<a_keyfile, a_key, a_saved>>
    /\ UNCHANGED <<program, svars, hvars>>

\* User.logout: clear_token, without the lock
UserLogout(p) ==
    /\ program = "async"
    /\ a_pc[p] = "idle"
    /\ "logout" \in Calls(p)
    /\ \E unlinkFails \in BOOLEAN :
         LET c == TmClearToken(a_file, unlinkFails) IN
         /\ Becomes(p, [World(p) EXCEPT !.token = c.token, !.pc = "done", !.ret = None,
                                        !.sent = NoSend, !.obs = NoObs,
                                        !.op = [NoOp EXCEPT !.name = "logout"]])
         /\ a_file' = c.file
    /\ UNCHANGED <<a_keyfile, a_key, a_saved>>
    /\ UNCHANGED <<program, svars, hvars>>

\* the caller has the result; the coroutine is gone
AsyncReturn(p) ==
    /\ program = "async"
    /\ a_pc[p] = "done"
    /\ Becomes(p, [World(p) EXCEPT !.pc = "idle", !.op = NoOp, !.sent = NoSend,
                                   !.ret = None, !.obs = NoObs])
    /\ UNCHANGED <<a_file, a_keyfile, a_key, a_saved>>
    /\ UNCHANGED <<program, svars, hvars>>

\* The state once TokenManager() exists: the key is read, no token is in
\* memory, token.enc is missing, unreadable, or left by an earlier run.
InitAsync ==
    /\ program = "async"
    /\ a_token = None
    /\ a_key = 3
    /\ a_keyfile = Some(3)
    /\ a_file \in {None, Some(<<7>>), Some(FernetEncrypt(3, 1, <<"a">>))}
    /\ a_lock = FreeLock
    /\ a_pc = [p \in Procs |-> "idle"]
    /\ a_op = [p \in Procs |-> NoOp]
    /\ a_sent = [p \in Procs |-> NoSend]
    /\ a_ret = [p \in Procs |-> None]
    /\ a_obs = [p \in Procs |-> NoObs]
    /\ a_saved = None

(***************************************************************************)
(* tokens: TokenManager used by one caller, one call at a time, across     *)
(* restarts of the process.  With one coroutine the lock is always free    *)
(* and load_token runs to its return.                                      *)
(***************************************************************************)
TokCall(name, hadToken) == [name |-> name, hadToken |-> hadToken]

TokSaveToken ==
    /\ program = "tokens"
    /\ a_op = None
    /\ \E t \in Strings, iv \in FernetIVs, fault \in SaveFaults :
         LET sv == TmSaveToken(a_token, a_file, a_key, Some(t), iv, fault) IN
         /\ a_token' = sv.token
         /\ a_file' = sv.file
         /\ a_saved' = IF sv.wrote
                       THEN IF a_keyfile = Some(a_key) THEN Some(t) ELSE None
                       ELSE IF sv.file = a_file THEN a_saved ELSE None
    /\ a_op' = TokCall("save_token", a_token # None)
    /\ a_ret' = None
    /\ UNCHANGED <<a_keyfile, a_key, a_lock, a_pc, a_sent, a_obs>>
    /\ UNCHANGED <<program, svars, hvars>>

TokLoadToken ==
    /\ program = "tokens"
    /\ a_op = None
    /\ LET f == TmLoadFinds(a_token, a_file, a_key) IN
         /\ a_token' = f.token
         /\ a_ret' = Some(f.ret)
    /\ a_op' = TokCall("load_token", a_token # None)
    /\ UNCHANGED <<a_file, a_saved, a_keyfile, a_key, a_lock, a_pc, a_sent, a_obs>>
    /\ UNCHANGED <<program, svars, hvars>>

TokClearToken ==
    /\ program = "tokens"
    /\ a_op = None
    /\ \E unlinkFails \in BOOLEAN :
         LET c == TmClearToken(a_file, unlinkFails) IN
         /\ a_token' = c.token
         /\ a_file' = c.file
         /\ a_saved' = IF c.file = a_file THEN a_saved ELSE None
    /\ a_op' = TokCall("clear_token", a_token # None)
    /\ a_ret' = None
    /\ UNCHANGED <<a_keyfile, a_key, a_lock, a_pc, a_sent, a_obs>>
    /\ UNCHANGED <<program, svars, hvars>>

\* the caller has the result of its call
TokReturn ==
    /\ program = "tokens"
    /\ a_op # None
    /\ a_op' = None
    /\ a_ret' = None
    /\ UNCHANGED <<a_token, a_file, a_saved, a_keyfile, a_key, a_lock, a_pc, a_sent, a_obs>>
    /\ UNCHANGED <<program, svars, hvars>>

\* A new process builds the singleton: no token in memory, the key is read
\* from secret.key or created and written there.
TokRestart ==
    /\ program = "tokens"
    /\ a_op = None
    /\ \E k \in FernetKeys :
         /\ a_key' = GetOrCreateKey(a_keyfile, k)
         /\ a_keyfile' = Some(GetOrCreateKey(a_keyfile, k))
    /\ a_token' = None
    /\ UNCHANGED <<a_file, a_saved, a_op, a_ret, a_lock, a_pc, a_sent, a_obs>>
    /\ UNCHANGED <<program, svars, hvars>>

\* Outside the program: secret.key is removed or replaced, token.enc is
\* removed or overwritten.
TokKeyFileChanged ==
    /\ program = "tokens"
    /\ a_op = None
    /\ \E f \in {None} \cup {Some(k) : k \in FernetKeys} : a_keyfile' = f /\ f # a_keyfile
    /\ a_saved' = None
    /\ UNCHANGED <<a_token, a_file, a_key, a_op, a_ret, a_lock, a_pc, a_sent, a_obs>>
    /\ UNCHANGED <<program, svars, hvars>>
TokFileChanged ==
    /\ program = "tokens"
    /\ a_op = None
    /\ \E f \in {None, Some(<<7>>)} : a_file' = f /\ f # a_file
    /\ a_saved' = None
    /\ UNCHANGED <<a_token, a_keyfile, a_key, a_op, a_ret, a_lock, a_pc, a_sent, a_obs>>
    /\ UNCHANGED <<program, svars, hvars>>

\* The first process: no token.enc yet; secret.key is read or created.
InitTokens ==
    /\ program = "tokens"
    /\ a_token = None
    /\ a_file = None
    /\ a_key \in FernetKeys
    /\ a_keyfile = Some(a_key)
    /\ a_saved = None
    /\ a_op = None
    /\ a_ret = None
    /\ a_lock = FreeLock
    /\ a_pc = None
    /\ a_sent = None
    /\ a_obs = None

(***************************************************************************)
(* http: AsyncHTTPClient (src/request.py).  h_sessions[i] says whether the *)
(* i-th ClientSession this client created is closed.  Two coroutines use   *)
(* the client; a request is suspended while its response is awaited.       *)
(***************************************************************************)
HProcs == {1, 2}

\* self.session is None or self.session.closed
NoOpenSession(sessions, session) == session = 0 \/ sessions[session]

\* A variant that opens a new session on every call.
EnsureSessionAlways(sessions, session) ==
    [sessions |-> Append(sessions, FALSE), session |-> Len(sessions) + 1, created |-> TRUE]

\* _ensure_session: a new ClientSession when there is none or it is closed
EnsureSession(sessions, session) ==
    IF NoOpenSession(sessions, session)
    THEN [sessions |-> Append(sessions, FALSE), session |-> Len(sessions) + 1, created |-> TRUE]
    ELSE [sessions |-> sessions, session |-> session, created |-> FALSE]

\* close(): closes the session if there is one and it is open
CloseSession(sessions, session) ==
    IF session # 0 /\ ~sessions[session]
    THEN [sessions EXCEPT ![session] = TRUE]
    ELSE sessions

\* _handle_response: JSON or text by content type; with raise_for_status a
\* status of 400 or more is an AsyncHTTPError, and so is any failure to read
HandleResponse(raiseForStatus, isJson, status, readFails) ==
    IF readFails THEN "AsyncHTTPError"
    ELSE IF raiseForStatus /\ status >= 400 THEN "AsyncHTTPError"
    ELSE IF isJson THEN "json" ELSE "text"

Step(op, e, hadOpen) == [op |-> op, created |-> e.created, hadOpen |-> hadOpen]

\* AsyncHTTPClient(...): no session yet
HttpNew ==
    /\ program = "http"
    /\ h_last = None
    /\ \E r \in BOOLEAN, c \in BOOLEAN : h_cfg' = Some([raise_for_status |-> r, cookies |-> c])
    /\ h_last' = [op |-> "__init__", created |-> FALSE, hadOpen |-> FALSE]
    /\ UNCHANGED <<h_sessions, h_session, h_pc, h_req, h_ret>>
    /\ UNCHANGED <<program, svars, avars>>

\* AsyncHTTPClient.create(...): the constructor, then _ensure_session
HttpCreate ==
    /\ program = "http"
    /\ h_last = None
    /\ \E r \in BOOLEAN, c \in BOOLEAN : h_cfg' = Some([raise_for_status |-> r, cookies |-> c])
    /\ LET e == EnsureSession(h_sessions, h_session) IN
         /\ h_sessions' = e.sessions
         /\ h_session' = e.session
         /\ h_last' = Step("create", e, ~NoOpenSession(h_sessions, h_session))
    /\ UNCHANGED <<h_pc, h_req, h_ret>>
    /\ UNCHANGED <<program, svars, avars>>

\* __aenter__: _ensure_session
HttpAenter ==
    /\ program = "http"
    /\ h_last # None
    /\ NoOpenSession(h_sessions, h_session) => Len(h_sessions) < MaxSessions
    /\ LET e == EnsureSession(h_sessions, h_session) IN
         /\ h_sessions' = e.sessions
         /\ h_session' = e.session
         /\ h_last' = Step("__aenter__", e, ~NoOpenSession(h_sessions, h_session))
    /\ UNCHANGED <<h_pc, h_req, h_ret, h_cfg>>
    /\ UNCHANGED <<program, svars, avars>>

\* final_cookies = {**self.cookies, **(cookies or {})} if self.cookies or
\* cookies else None: unpacking self.cookies = None is a TypeError
CookiesRaise(selfCookies, cookies) == ~selfCookies /\ cookies

\* request(method, url, ...): _ensure_session, then the merge of headers and
\* cookies, then one self.session.request, awaited
Request(p) ==
    /\ program = "http"
    /\ h_last # None
    /\ h_pc[p] = "idle"
    /\ NoOpenSession(h_sessions, h_session) => Len(h_sessions) < MaxSessions
    /\ \E cookies \in BOOLEAN :
         LET e == EnsureSession(h_sessions, h_session)
             raises == CookiesRaise(The(h_cfg).cookies, cookies) IN
           /\ h_sessions' = e.sessions
           /\ h_session' = e.session
           /\ h_req' = [h_req EXCEPT ![p] = [session |-> e.session,
                                             sent |-> IF raises THEN 0 ELSE 1,
                                             afterClose |-> NoOpenSession(h_sessions, h_session),
                                             fresh |-> e.created]]
           /\ h_last' = Step("request", e, ~NoOpenSession(h_sessions, h_session))
           /\ h_pc' = [h_pc EXCEPT ![p] = IF raises THEN "done" ELSE "awaiting"]
           /\ h_ret' = [h_ret EXCEPT ![p] = IF raises THEN "TypeError" ELSE None]
    /\ UNCHANGED h_cfg
    /\ UNCHANGED <<program, svars, avars>>

HttpRequest(p) == Request(p)
\* get, post, put, delete: `return await self.request("GET" | ..., url, ...)`
HttpGet(p) == Request(p)
HttpPost(p) == Request(p)
HttpPut(p) == Request(p)
HttpDelete(p) == Request(p)

\* the response arrives and _handle_response gives the result, or the
\* request fails (always so once its session was closed under it)
HttpResponse(p) ==
    /\ program = "http"
    /\ h_pc[p] = "awaiting"
    /\ \/ h_ret' = [h_ret EXCEPT ![p] = "ClientError"]
       \/ /\ ~h_sessions[h_req[p].session]
          /\ \E isJson \in BOOLEAN, status \in {200, 404}, readFails \in BOOLEAN :
               h_ret' = [h_ret EXCEPT ![p] = HandleResponse(The(h_cfg).raise_for_status, isJson, status, readFails)]
    /\ h_pc' = [h_pc EXCEPT ![p] = "done"]
    /\ UNCHANGED <<h_sessions, h_session, h_req, h_last, h_cfg>>
    /\ UNCHANGED <<program, svars, avars>>

HttpReturn(p) ==
    /\ program = "http"
    /\ h_pc[p] = "done"
    /\ h_pc' = [h_pc EXCEPT ![p] = "idle"]
    /\ h_req' = [h_req EXCEPT ![p] = None]
    /\ h_ret' = [h_ret EXCEPT ![p] = None]
    /\ UNCHANGED <<h_sessions, h_session, h_last, h_cfg>>
    /\ UNCHANGED <<program, svars, avars>>

HttpClose ==
    /\ program = "http"
    /\ h_last # None
    /\ h_sessions' = CloseSession(h_sessions, h_session)
    /\ h_last' = [op |-> "close", created |-> FALSE, hadOpen |-> ~NoOpenSession(h_sessions, h_session)]
    /\ UNCHANGED <<h_session, h_pc, h_req, h_ret, h_cfg>>
    /\ UNCHANGED <<program, svars, avars>>

\* __aexit__: close()
HttpAexit ==
    /\ program = "http"
    /\ h_last # None
    /\ h_sessions' = CloseSession(h_sessions, h_session)
    /\ h_last' = [op |-> "__aexit__", created |-> FALSE, hadOpen |-> ~NoOpenSession(h_sessions, h_session)]
    /\ UNCHANGED <<h_session, h_pc, h_req, h_ret, h_cfg>>
    /\ UNCHANGED <<program, svars, avars>>

\* Before the client is constructed.
InitHttp ==
    /\ program = "http"
    /\ h_sessions = <<>>
    /\ h_session = 0
    /\ h_pc = [p \in HProcs |-> "idle"]
    /\ h_req = [p \in HProcs |-> None]
    /\ h_ret = [p \in HProcs |-> None]
    /\ h_last = None
    /\ h_cfg = None

SyncUnused ==
    /\ s_token = None
    /\ s_hdr = None
    /\ s_file = None
    /\ s_salt = None
    /\ s_env = None
    /\ s_call = None
    /\ s_ret = None
    /\ s_sent = 0
    /\ s_mr = None
    /\ s_saved = None
AsyncUnused ==
    /\ a_token = None
    /\ a_file = None
    /\ a_keyfile = None
    /\ a_key = None
    /\ a_lock = None
    /\ a_pc = None
    /\ a_op = None
    /\ a_sent = None
    /\ a_ret = None
    /\ a_obs = None
    /\ a_saved = None
HttpUnused ==
    /\ h_sessions = None
    /\ h_session = 0
    /\ h_pc = None
    /\ h_req = None
    /\ h_ret = None
    /\ h_last = None
    /\ h_cfg = None

Init ==
    \/ InitSync /\ AsyncUnused /\ HttpUnused
    \/ InitAsync /\ SyncUnused /\ HttpUnused
    \/ InitTokens /\ SyncUnused /\ HttpUnused
    \/ InitHttp /\ SyncUnused /\ AsyncUnused

Next ==
    \/ SyncInitialize
    \/ SyncImport
    \/ SyncLogin
    \/ SyncBan
    \/ SyncUnban
    \/ SyncKick
    \/ SyncTagAdd
    \/ SyncTagRm
    \/ SyncTagList
    \/ SyncTagEdit
    \/ SyncTagSet
    \/ SyncJoin
    \/ SyncLeave
    \/ SyncFileChanged
    \/ SyncSaltRemoved
    \/ SyncReturn
    \/ \E p \in Procs : AsyncInit(p)
    \/ \E p \in Procs : UserLogin(p)
    \/ \E p \in Procs : LoginReturns(p)
    \/ \E p \in Procs : UserLogout(p)
    \/ \E p \in Procs : AdminBan(p)
    \/ \E p \in Procs : AdminUnban(p)
    \/ \E p \in Procs : AdminKick(p)
    \/ \E p \in Procs : TagEdit(p)
    \/ \E p \in Procs : TagAdd(p)
    \/ \E p \in Procs : TagRm(p)
    \/ \E p \in Procs : LockGranted(p)
    \/ \E p \in Procs : LoadResumes(p)
    \/ \E p \in Procs : PostReturns(p)
    \/ \E p \in Procs : AsyncReturn(p)
    \/ TokSaveToken
    \/ TokLoadToken
    \/ TokClearToken
    \/ TokReturn
    \/ TokRestart
    \/ TokKeyFileChanged
    \/ TokFileChanged
    \/ HttpNew
    \/ HttpCreate
    \/ HttpAenter
    \/ \E p \in HProcs : HttpRequest(p)
    \/ \E p \in HProcs : HttpGet(p)
    \/ \E p \in HProcs : HttpPost(p)
    \/ \E p \in HProcs : HttpPut(p)
    \/ \E p \in HProcs : HttpDelete(p)
    \/ \E p \in HProcs : HttpResponse(p)
    \/ \E p \in HProcs : HttpReturn(p)
    \/ HttpClose
    \/ HttpAexit

Spec == Init /\ [][Next]_vars

(***************************************************************************)
(* Claims                                                                  *)
(***************************************************************************)
UnifiedKeys == {"success", "code", "message", "data"}

\* C5 (as stated): login returns a dict with the keys success, code, message
\* and data for every server reply, network failure and token-storage
\* failure, and never raises.
C5_LoginAlwaysUnified ==
    (program = "sync" /\ s_call # None /\ s_call.op = "login")
        => (~s_ret.raised /\ DOMAIN s_ret.val = UnifiedKeys)

\* C6: _make_request never raises; it returns a dict with the keys success,
\* code, message, data; success is true exactly when the server's code is 1;
\* a RequestException gives code -2, any other exception code -3, and a reply
\* without a code field gives code -1 with success false.
C6_MakeRequestUnified ==
    (program = "sync" /\ s_mr # None) =>
        LET o == The(s_mr).outcome
            v == The(s_mr).val
            raisedReq == o.kind \in {"post_raises", "json_raises"} /\ o.reqExc
            raisedOther == \/ o.kind \in {"post_raises", "json_raises"} /\ ~o.reqExc
                           \/ o.kind \in {"pre_raises", "nondict"}
        IN  /\ DOMAIN v = UnifiedKeys
            /\ v.success \in BOOLEAN
            /\ v.success <=> (o.kind = "reply" /\ "code" \in DOMAIN o.body
                                /\ o.body.code = Some(1))
            /\ raisedReq => v.code = Some(-2)
            /\ raisedOther => v.code = Some(-3)
            /\ (o.kind = "reply" /\ "code" \notin DOMAIN o.body)
                   => (v.code = Some(-1) /\ ~v.success)
            /\ (o.kind = "reply" /\ "code" \in DOMAIN o.body) => v.code = o.body.code

\* C6 witness: a reply without a code field came back and was unified
C6_Witness ==
    /\ program = "sync"
    /\ s_mr # None
    /\ The(s_mr).outcome.kind = "reply"
    /\ "code" \notin DOMAIN The(s_mr).outcome.body
    /\ The(s_mr).val.code = Some(-1)
    /\ s_ret = Returned(The(s_mr).val)

\* a login call was just made with force = f
LoginCalled(f) ==
    /\ program = "sync"
    /\ s_call = None
    /\ s_call' # None
    /\ s_call'.op = "login"
    /\ s_call'.force = f

\* login took the existing-token shortcut: no request, nothing changed
UsedExisting ==
    /\ s_sent' = 0
    /\ s_mr' = None
    /\ s_ret' = Returned(Unified(TRUE, Some(1), "use existing token", None))
    /\ UNCHANGED <<s_token, s_hdr, s_file, s_env>>

\* C4 (as stated): login(force=False) called while api.token is set (is not
\* None) returns success/code 1 without a request and leaves api.token,
\* headers['token'], the token file and CHAT_API_TOKEN unchanged; with
\* force=True login always goes to the login request.
C4_Original ==
    [][/\ (LoginCalled(FALSE) /\ s_token # None) => UsedExisting
       /\ LoginCalled(TRUE) => s_mr' # None]_vars

\* C4 (amended): the same for a token that is a non-empty string; with an
\* empty-string or None token, and always with force=True, login goes to the
\* login request.
C4_LoginPrefersNonEmptyToken ==
    [][/\ (LoginCalled(FALSE) /\ Truthy(s_token)) => UsedExisting
       /\ (LoginCalled(FALSE) /\ ~Truthy(s_token)) => s_mr' # None
       /\ LoginCalled(TRUE) => s_mr' # None]_vars

\* C4 witness: login(force=False) returned the shortcut while a token was held
C4_Witness ==
    /\ program = "sync"
    /\ s_call = Call("login", FALSE, TRUE)
    /\ Truthy(s_token)
    /\ s_sent = 0
    /\ s_ret = Returned(Unified(TRUE, Some(1), "use existing token", None))

Guarded(p) == a_op[p].name \in {"guarded", "unban"}

\* the call of p was refused: no request, the body never ran
Refused(p) ==
    /\ a_pc[p] # "http"
    /\ a_sent[p].n = 0
    /\ a_pc[p] = "done" => a_ret[p] = AuthRequired

C3_TokenHeaderNeverNone ==
    program = "async" =>
        \A p \in Procs : (Guarded(p) /\ a_pc[p] = "http") => a_sent[p].hdr # Some(None)

\* C7: one invocation of a public operation sends at most one HTTP request.
C7_AtMostOneRequest ==
    /\ program = "sync" => s_sent <= 1
    /\ program = "async" => \A p \in Procs : a_sent[p].n <= 1
    /\ program = "http" => \A p \in HProcs : h_req[p] # None => h_req[p].sent <= 1

\* C7 witness: a call met a network error and returned after its one request
C7_Witness ==
    /\ program = "sync"
    /\ s_call # None
    /\ s_sent = 1
    /\ s_ret = Returned(Unified(FALSE, Some(-2), "network error", None))

OpenSessions == {i \in 1..Len(h_sessions) : ~h_sessions[i]}

\* C8: at most one session of the client is open and it is self.session (an
\* open session is never replaced); a session is created only when there is
\* none or it is closed; after close() or __aexit__ none is open; a request
\* issued when no session is open runs on a session opened for it.
C8_SessionLifecycle ==
    program = "http" =>
        /\ OpenSessions \subseteq {h_session}
        /\ h_last # None =>
             /\ h_last.created => ~h_last.hadOpen
             /\ h_last.op \in {"close", "__aexit__"} => OpenSessions = {}
        /\ \A p \in HProcs :
             h_req[p] # None =>
                 h_req[p].afterClose <=> h_req[p].fresh

\* C8 witness: after a close, a request is running on a second, fresh session
C8_Witness ==
    /\ program = "http"
    /\ \E p \in HProcs :
         /\ h_pc[p] = "awaiting"
         /\ h_req[p].afterClose
         /\ h_req[p].fresh
         /\ h_req[p].session = h_session
         /\ h_session > 1
         /\ ~h_sessions[h_session]
         /\ h_sessions[1]
====
